---- MODULE Spec2Model ----
(***************************************************************************)
(* Mortgage Analyst Pro: the amortization engine (payment solver, schedule *)
(* generator, sensitivity sweep, affordability engine) as a state machine. *)
(*                                                                         *)
(* Number representation.  The program computes with IEEE doubles; the     *)
(* model computes with scaled integers:                                    *)
(*   - a dollar amount is an integer number of micro-dollars (1e-6 $), so  *)
(*     Math.round(x * 100) / 100 is rounding to a multiple of 10000;       *)
(*   - an annual rate in percent is an integer number of 2e-8 percent,     *)
(*     which makes it its own semi-annual rate in units of 1e-10;          *)
(*   - a periodic rate, and any (1 + c)^n - 1, is an integer number of     *)
(*     1e-10 (the quantum getPeriodicRate rounds to);                      *)
(*   - a GDS/TDS ratio in percent is an integer number of 1e-4 percent.    *)
(* Products are formed exactly (MulDivQR) and rounded once.                *)
(***************************************************************************)
EXTENDS Integers, Sequences, FiniteSets, TLC

(***************************************************************************)
(* Arithmetic                                                              *)
(***************************************************************************)

\* micro-dollars in one cent
Cent == 10000

\* 1e9: one tenth of the 1e10 quantum of a periodic rate
RateScaleTenth == 1000000000

\* a (possibly negative) number's absolute value
Abs(x) == IF x < 0 THEN -x ELSE x

\* one doubling step of MulDivQR: from h = (a * k) as quotient and remainder
\* by d to a * (2k), or to a * (2k + 1) when odd
MulDivStep(h, a, odd, d) ==
  IF h.r < 0 THEN h
  ELSE LET c2 == h.r >= d - h.r
           dq == 2 * h.q + (IF c2 THEN 1 ELSE 0)
           dr == IF c2 THEN h.r - (d - h.r) ELSE h.r + h.r
           aq == a \div d
           ar == a % d
           c1 == dr >= d - ar
       IN IF ~odd
          THEN [q |-> dq, r |-> dr]
          ELSE [q |-> dq + aq + (IF c1 THEN 1 ELSE 0),
                r |-> IF c1 THEN dr - (d - ar) ELSE dr + ar]

\* exact a * b as quotient and remainder by d (a, b >= 0, d > 0), formed
\* by doubling so that no intermediate exceeds the integer width
RECURSIVE MulDivQR(_, _, _)
MulDivQR(a, b, d) ==
  IF a = 0 \/ b = 0 \/ d = 0 THEN [q |-> 0, r |-> 0]
  ELSE MulDivStep(MulDivQR(a, b \div 2, d), a, b % 2 = 1, d)

\* a quotient and remainder by d rounded to the nearest integer, halves up
RoundQR(m, d) == m.q + (IF m.r >= d - m.r THEN 1 ELSE 0)

\* a * b / d rounded to the nearest integer, halves up (a, b >= 0, d > 0)
MulDivRound(a, b, d) ==
  RoundQR(IF a < b THEN MulDivQR(b, a, d) ELSE MulDivQR(a, b, d), d)

\* one limb of the limb-wise product below
Limb == 10000

\* the limb-wise product from its high part hi (units of 1e12) and its low
\* part lo (eight digits, units of 1e4), c0 holding the last four digits
LimbResult(hi, lo, c0) ==
  [q     |-> hi * 100 + (lo \div 1000000),
   half  |-> (lo % 1000000) >= 500000,
   exact |-> (lo % 1000000) = 0 /\ (c0 % Limb) = 0]

\* the carries of the column sums c0..c3 of a limb-wise product
LimbCarry(c0, c1, c2, c3) ==
  LET t1 == c1 + (c0 \div Limb)
      t2 == c2 + (t1 \div Limb)
  IN LimbResult(c3 + (t2 \div Limb), (t2 % Limb) * Limb + (t1 % Limb), c0)

\* the column sums of the product of the limbs x2 x1 x0 and y2 y1 y0
LimbColumns(x0, x1, x2, y0, y1, y2) ==
  LimbCarry(x0 * y0, x0 * y1 + x1 * y0, x0 * y2 + x1 * y1 + x2 * y0,
            x1 * y2 + x2 * y1 + x2 * y2 * Limb)

\* x * y / 1e10 for x, y >= 0, formed limb by limb: q is the quotient,
\* half says that the remainder is at least one half, exact that it is zero
LimbProduct(x, y) ==
  LimbColumns(x % Limb, (x \div Limb) % Limb, x \div (Limb * Limb),
              y % Limb, (y \div Limb) % Limb, y \div (Limb * Limb))

\* a limb-wise product rounded to the nearest integer, halves up
RoundHalfUp(m) == m.q + (IF m.half THEN 1 ELSE 0)

\* a limb-wise product rounded up to an integer
RoundUp(m) == m.q + (IF m.exact THEN 0 ELSE 1)

\* x * y / 1e10 rounded to the nearest integer, halves up (x, y >= 0)
FMul(x, y) == RoundHalfUp(LimbProduct(x, y))

\* the floor of x * y / 1e10 for any x and y >= 0
FMulFloor(x, y) ==
  IF x >= 0 THEN LimbProduct(x, y).q ELSE -RoundUp(LimbProduct(-x, y))

\* Math.round(x * 100) / 100 on a dollar amount: nearest cent, halves up
Round2(x) == ((x + Cent \div 2) \div Cent) * Cent

\* (1 + h)^2 - 1 from h
Square1p(h) == 2 * h + FMul(h, h)

\* (1 + p) * (1 + c) - 1 from p and c
Times1p(p, c) == p + c + FMul(p, c)

\* Math.pow(1 + c, n) - 1 for an integer n >= 0, in units of 1e-10
RECURSIVE Pow1p(_, _)
Pow1p(c, n) ==
  IF n = 0 \/ c = 0 THEN 0
  ELSE IF n % 2 = 0 THEN Square1p(Pow1p(c, n \div 2))
  ELSE Times1p(Pow1p(c, n - 1), c)

\* the guess c moved by delta against the sign of its error
NewtonMove(c, err, delta) == IF err >= 0 THEN c - delta ELSE c + delta

\* one Newton step from the guess c with error err = (1 + c)^k - 1 - s and
\* slope = (1 + c)^(k - 1) in units of 1e-9
NewtonStep(c, k, err, slope) ==
  NewtonMove(c, err, MulDivQR(Abs(err) \div k, RateScaleTenth, slope).q)

\* Newton steps towards the c with (1 + c)^k - 1 = s, from the guess c
RECURSIVE RootNewton(_, _, _, _)
RootNewton(s, k, c, steps) ==
  IF steps = 0 \/ c = 0 THEN c
  ELSE RootNewton(s, k,
                  NewtonStep(c, k, Pow1p(c, k) - s,
                             RateScaleTenth + (Pow1p(c, k - 1) \div 10)),
                  steps - 1)

\* the candidates next to c, each paired with its error as a root of s
RootCandidates(s, k, c) ==
  {<<Abs(Pow1p(x, k) - s), x>> : x \in {y \in (c - 3)..(c + 3) : y >= 0}}

\* the candidate of least error, the smaller one on a tie
ClosestRoot(S) ==
  CHOOSE p \in S : \A q \in S : p[1] < q[1] \/ (p[1] = q[1] /\ p[2] <= q[2])

\* Math.pow(1 + s, 1 / k) - 1 rounded to the nearest 1e-10: six Newton steps
\* from s / k, then the closest of the neighbouring candidates
Root1p(s, k) ==
  IF s = 0 THEN 0
  ELSE ClosestRoot(RootCandidates(s, k,
                                  RootNewton(s, k, (s \div k), 6)))[2]

(***************************************************************************)
(* payment.ts                                                              *)
(***************************************************************************)

\* the value Infinity of a number
Infinity == 2147483647

\* the value NaN of a number
NaN == 2147483646

\* units of 2e-8 percent in 0.01 percent
RateUnit == 500000

\* x / n on numbers: the nearest representable quotient; a positive number
\* over 0 is Infinity, a negative one -Infinity (0 / 0 is not reached)
Divide(x, n) ==
  IF x = NaN THEN NaN
  ELSE IF n = 0 THEN (IF x < 0 THEN -Infinity ELSE Infinity)
  ELSE IF x = Infinity \/ x = -Infinity THEN x
  ELSE (x \div n) + (IF (x % n) >= n - (x % n) THEN 1 ELSE 0)

\* x * (num / den) on numbers, x of any sign, num and den >= 0: 0 / 0 is
\* NaN, and so is 0 * Infinity
Scale(x, num, den) ==
  IF x = NaN THEN NaN
  ELSE IF den = 0
  THEN (IF num = 0 \/ x = 0 THEN NaN
        ELSE IF x < 0 THEN -Infinity ELSE Infinity)
  ELSE IF x = Infinity \/ x = -Infinity THEN x
  ELSE IF x >= 0 THEN MulDivRound(x, num, den)
  ELSE -MulDivRound(-x, num, den)

\* Math.round(x * 100) / 100 on any number
RoundToCents(x) ==
  IF x = Infinity \/ x = -Infinity \/ x = NaN THEN x ELSE Round2(x)

\* the six payment frequencies
PaymentFrequency ==
  {"monthly", "semi-monthly", "bi-weekly", "weekly",
   "accelerated-bi-weekly", "accelerated-weekly"}

getPaymentsPerYear(frequency) ==
  CASE frequency = "monthly" -> 12
    [] frequency = "semi-monthly" -> 24
    [] frequency = "bi-weekly" -> 26
    [] frequency = "weekly" -> 52
    [] frequency = "accelerated-bi-weekly" -> 26
    [] frequency = "accelerated-weekly" -> 52
    [] OTHER -> 12

\* annualRate in 2e-8 percent, which is annualRate / 100 / 2 in 1e-10; the
\* result in units of 1e-10
getPeriodicRate(annualRate, paymentsPerYear) ==
  Root1p(annualRate, paymentsPerYear \div 2)

\* principal * (c * (1 + c)^n) / ((1 + c)^n - 1) from growth = (1 + c)^n - 1
AnnuityFromGrowth(principal, periodicRate, growth) ==
  Scale(principal, periodicRate + FMul(periodicRate, growth), growth)

\* the annuity formula of calculatePayment for a rate other than 0
AnnuityPayment(principal, periodicRate, totalPayments) ==
  AnnuityFromGrowth(principal, periodicRate,
                    Pow1p(periodicRate, totalPayments))

\* calculatePayment with the accelerated branch taken before the zero-rate one
RECURSIVE calculatePaymentAcceleratedFirst(_)
calculatePaymentAcceleratedFirst(params) ==
  IF params.frequency = "accelerated-bi-weekly"
  THEN Divide(calculatePaymentAcceleratedFirst(
                [params EXCEPT !.frequency = "monthly"]), 2)
  ELSE IF params.frequency = "accelerated-weekly"
  THEN Divide(calculatePaymentAcceleratedFirst(
                [params EXCEPT !.frequency = "monthly"]), 4)
  ELSE IF params.annualRate = 0
  THEN Divide(params.principal,
              params.amortizationYears * getPaymentsPerYear(params.frequency))
  ELSE AnnuityPayment(params.principal,
                      getPeriodicRate(params.annualRate,
                                      getPaymentsPerYear(params.frequency)),
                      params.amortizationYears
                        * getPaymentsPerYear(params.frequency))

\* (the code evaluates the annuity formula for the given frequency before it
\* tests for an accelerated one, and then discards that value)
RECURSIVE calculatePayment(_)
calculatePayment(params) ==
  IF params.annualRate = 0
  THEN Divide(params.principal,
              params.amortizationYears * getPaymentsPerYear(params.frequency))
  ELSE IF params.frequency = "accelerated-bi-weekly"
       THEN Divide(calculatePayment([params EXCEPT !.frequency = "monthly"]),
                   2)
  ELSE IF params.frequency = "accelerated-weekly"
       THEN Divide(calculatePayment([params EXCEPT !.frequency = "monthly"]),
                   4)
  ELSE AnnuityPayment(params.principal,
                      getPeriodicRate(params.annualRate,
                                      getPaymentsPerYear(params.frequency)),
                      params.amortizationYears
                        * getPaymentsPerYear(params.frequency))

convertToMonthlyPayment(payment, frequency) ==
  Scale(payment, getPaymentsPerYear(frequency), 12)

\* (a payment that is NaN gives NaN)
calculateTotalInterest(principal, payment, frequency, amortizationYears) ==
  IF payment = NaN THEN NaN
  ELSE payment * (amortizationYears * getPaymentsPerYear(frequency))
         - principal

\* monthlyPayment * (numerator / denominator) of calculateMaxMortgage from
\* growth = (1 + c)^n - 1: numerator growth, denominator c * (1 + c)^n
MaxMortgageFromGrowth(monthlyPayment, periodicRate, growth) ==
  Scale(monthlyPayment, growth, periodicRate + FMul(periodicRate, growth))

calculateMaxMortgage(monthlyPayment, annualRate, amortizationYears, frequency) ==
  IF annualRate = 0
  THEN monthlyPayment * (amortizationYears * getPaymentsPerYear(frequency))
  ELSE MaxMortgageFromGrowth(monthlyPayment,
         getPeriodicRate(annualRate, getPaymentsPerYear(frequency)),
         Pow1p(getPeriodicRate(annualRate, getPaymentsPerYear(frequency)),
               amortizationYears * getPaymentsPerYear(frequency)))

(***************************************************************************)
(* affordability.ts                                                        *)
(***************************************************************************)

\* 1e-4 percent units in one percent
RatioUnit == 10000

\* 32%
DEFAULT_GDS_THRESHOLD == 32 * RatioUnit

\* 40%
DEFAULT_TDS_THRESHOLD == 40 * RatioUnit

\* Math.round(x * 100) / 100 on a ratio in percent
RoundRatio(x) ==
  IF x = Infinity THEN x ELSE ((x + 50) \div 100) * 100

\* calculateGDS answering 0 where there is no income
calculateGDSZeroWithoutIncome(monthlyHousingCosts, grossMonthlyIncome) ==
  IF grossMonthlyIncome <= 0 THEN 0
  ELSE Scale(monthlyHousingCosts, 100 * RatioUnit, grossMonthlyIncome)

calculateGDS(monthlyHousingCosts, grossMonthlyIncome) ==
  IF grossMonthlyIncome <= 0 THEN Infinity
  ELSE Scale(monthlyHousingCosts, 100 * RatioUnit, grossMonthlyIncome)

calculateTDS(monthlyHousingCosts, monthlyDebts, grossMonthlyIncome) ==
  IF grossMonthlyIncome <= 0 THEN Infinity
  ELSE Scale(monthlyHousingCosts + monthlyDebts, 100 * RatioUnit,
             grossMonthlyIncome)

\* the object calculateAffordability returns: the ratios compared unrounded,
\* then rounded to two decimals
AffordabilityResult(a, monthlyPayment, housingCosts, gdsRatio, tdsRatio) ==
  [gdsRatio            |-> RoundRatio(gdsRatio),
   tdsRatio            |-> RoundRatio(tdsRatio),
   monthlyHousingCosts |-> RoundToCents(housingCosts),
   monthlyPayment      |-> RoundToCents(monthlyPayment),
   isAffordable        |-> gdsRatio <= a.gdsThreshold
                             /\ tdsRatio <= a.tdsThreshold,
   gdsThreshold        |-> a.gdsThreshold,
   tdsThreshold        |-> a.tdsThreshold]

\* calculateAffordability from the housing costs and the monthly income on
AffordabilityRatios(a, monthlyPayment, housingCosts, monthlyIncome) ==
  AffordabilityResult(a, monthlyPayment, housingCosts,
                      calculateGDS(housingCosts, monthlyIncome),
                      calculateTDS(housingCosts, a.monthlyDebts,
                                   monthlyIncome))

\* calculateAffordability from the monthly payment on
AffordabilityCosts(a, monthlyPayment) ==
  AffordabilityRatios(a, monthlyPayment,
                      monthlyPayment + a.propertyTax + a.heatingCost
                        + Divide(a.condoFees, 2),
                      Divide(a.grossAnnualIncome, 12))

\* a: principal, annualRate, amortizationYears, frequency, grossAnnualIncome,
\* monthlyDebts, propertyTax, heatingCost, condoFees, gdsThreshold,
\* tdsThreshold
calculateAffordability(a) ==
  AffordabilityCosts(a,
    convertToMonthlyPayment(
      calculatePayment([principal |-> a.principal,
                        annualRate |-> a.annualRate,
                        amortizationYears |-> a.amortizationYears,
                        frequency |-> a.frequency]),
      a.frequency))

\* Math.max(0, x) on a dollar amount
FloorAtZero(x) == IF x > 0 THEN x ELSE 0

\* the housing costs allowed taken from the GDS limit alone
MaxHousingCostsByGDSAlone(byGDS, byTDS) == byGDS

\* Math.min(maxHousingCostsByGDS, maxHousingCostsByTDS)
MaxHousingCosts(byGDS, byTDS) == IF byGDS < byTDS THEN byGDS ELSE byTDS

\* the principal a monthly payment carries: payment * totalPayments at rate
\* 0, payment * (numerator / denominator) otherwise.  The periodic rate of
\* this function is not rounded: at a rate above 0 it is above 0, and where
\* it is less than the 1e-10 the model holds, numerator / denominator is
\* totalPayments to within 1e-8 of it.
PrincipalOfPayment(payment, annualRate, totalPayments, periodicRate, growth) ==
  IF annualRate = 0 \/ periodicRate = 0 THEN payment * totalPayments
  ELSE MaxMortgageFromGrowth(payment, periodicRate, growth)

\* Math.max(0, Math.round(x * 100) / 100) on the three returned amounts
MaxAffordableResult(maxByGDS, maxByTDS, maxMortgage) ==
  [maxByGDS    |-> FloorAtZero(RoundToCents(maxByGDS)),
   maxByTDS    |-> FloorAtZero(RoundToCents(maxByTDS)),
   maxMortgage |-> FloorAtZero(RoundToCents(maxMortgage))]

\* calculateMaxAffordableMortgage from the two limits on housing costs, the
\* other housing costs, the periodic rate and growth = (1 + c)^n - 1 on
MaxAffordableFromLimits(a, byGDS, byTDS, other, periodicRate, growth) ==
  MaxAffordableResult(
    PrincipalOfPayment(byGDS - other, a.annualRate,
                       a.amortizationYears * 12, periodicRate, growth),
    PrincipalOfPayment(byTDS - other, a.annualRate,
                       a.amortizationYears * 12, periodicRate, growth),
    PrincipalOfPayment(FloorAtZero(MaxHousingCosts(byGDS, byTDS) - other),
                       a.annualRate, a.amortizationYears * 12,
                       periodicRate, growth))

\* calculateMaxAffordableMortgage from the monthly income and the periodic
\* rate on
MaxAffordableAtRate(a, monthlyIncome, periodicRate) ==
  MaxAffordableFromLimits(a,
    Scale(monthlyIncome, a.gdsThreshold, 100 * RatioUnit),
    Scale(monthlyIncome, a.tdsThreshold, 100 * RatioUnit) - a.monthlyDebts,
    a.propertyTax + a.heatingCost + Divide(a.condoFees, 2),
    periodicRate, Pow1p(periodicRate, a.amortizationYears * 12))

\* a: grossAnnualIncome, monthlyDebts, annualRate, amortizationYears,
\* propertyTax, heatingCost, condoFees, gdsThreshold, tdsThreshold.  The
\* code computes the monthly periodic rate itself and does not round it; the
\* model holds it to 1e-10, the finest it holds any periodic rate to, and
\* PrincipalOfPayment takes a 0 at that resolution for what it is.
calculateMaxAffordableMortgage(a) ==
  MaxAffordableAtRate(a, Divide(a.grossAnnualIncome, 12),
                      Root1p(a.annualRate, 6))

(***************************************************************************)
(* stress-test.ts                                                          *)
(***************************************************************************)

\* 2%
STRESS_TEST_RATE_INCREASE == 200 * RateUnit

\* 5.25%
MINIMUM_QUALIFYING_RATE == 525 * RateUnit

\* getStressTestRate without the minimum qualifying rate
getStressTestRateMarkupOnly(contractRate) ==
  contractRate + STRESS_TEST_RATE_INCREASE

\* Math.max(contractRate + STRESS_TEST_RATE_INCREASE, MINIMUM_QUALIFYING_RATE)
getStressTestRate(contractRate) ==
  IF contractRate + STRESS_TEST_RATE_INCREASE > MINIMUM_QUALIFYING_RATE
  THEN contractRate + STRESS_TEST_RATE_INCREASE
  ELSE MINIMUM_QUALIFYING_RATE

\* maxPaymentAtContract without Math.max(0, ...)
StressMaxPaymentUnfloored(a) ==
  Scale(Divide(a.grossAnnualIncome, 12), 4, 10) - a.monthlyDebts
    - (a.propertyTax + a.heatingCost + Divide(a.condoFees, 2))

\* maxPaymentAtContract: 0.4 of the monthly income less the debts and the
\* housing costs other than the mortgage, floored at 0
StressMaxPayment(a) ==
  FloorAtZero(Scale(Divide(a.grossAnnualIncome, 12), 4, 10) - a.monthlyDebts
                - (a.propertyTax + a.heatingCost + Divide(a.condoFees, 2)))

\* the arguments performStressTest gives calculateAffordability, with the
\* contract rate where the code passes stressRate
StressAffordabilityArgsAtContract(a, stressRate) ==
  [principal |-> a.principal, annualRate |-> a.contractRate,
   amortizationYears |-> a.amortizationYears, frequency |-> a.frequency,
   grossAnnualIncome |-> a.grossAnnualIncome,
   monthlyDebts |-> a.monthlyDebts, propertyTax |-> a.propertyTax,
   heatingCost |-> a.heatingCost, condoFees |-> a.condoFees,
   gdsThreshold |-> DEFAULT_GDS_THRESHOLD,
   tdsThreshold |-> DEFAULT_TDS_THRESHOLD]

\* the arguments performStressTest gives calculateAffordability: the loan at
\* stressRate, the thresholds left to their defaults
StressAffordabilityArgs(a, stressRate) ==
  [principal |-> a.principal, annualRate |-> stressRate,
   amortizationYears |-> a.amortizationYears, frequency |-> a.frequency,
   grossAnnualIncome |-> a.grossAnnualIncome,
   monthlyDebts |-> a.monthlyDebts, propertyTax |-> a.propertyTax,
   heatingCost |-> a.heatingCost, condoFees |-> a.condoFees,
   gdsThreshold |-> DEFAULT_GDS_THRESHOLD,
   tdsThreshold |-> DEFAULT_TDS_THRESHOLD]

\* the payment of the loan at the given rate, as a monthly amount
StressMonthlyPayment(a, annualRate) ==
  convertToMonthlyPayment(
    calculatePayment([principal |-> a.principal, annualRate |-> annualRate,
                      amortizationYears |-> a.amortizationYears,
                      frequency |-> a.frequency]),
    a.frequency)

\* Math.round(rate * 100) / 100 on a rate
RoundRate(r) == ((r + RateUnit \div 2) \div RateUnit) * RateUnit

\* the object performStressTest returns
StressTestResult(a, stressRate, maxPaymentAtContract, affordabilityAtStress) ==
  [contractRate |-> RoundRate(a.contractRate),
   stressRate |-> RoundRate(stressRate),
   monthlyPaymentAtContract |->
     RoundToCents(StressMonthlyPayment(a, a.contractRate)),
   monthlyPaymentAtStress |->
     RoundToCents(StressMonthlyPayment(a, stressRate)),
   maxMortgageAtContract |->
     RoundToCents(calculateMaxMortgage(maxPaymentAtContract, a.contractRate,
                                       a.amortizationYears, a.frequency)),
   maxMortgageAtStress |->
     RoundToCents(calculateMaxMortgage(maxPaymentAtContract, stressRate,
                                       a.amortizationYears, a.frequency)),
   passesStressTest |-> affordabilityAtStress.isAffordable,
   affordabilityAtStress |-> affordabilityAtStress]

\* performStressTest from stressRate on
StressTestAtRate(a, stressRate) ==
  StressTestResult(a, stressRate, StressMaxPayment(a),
    calculateAffordability(StressAffordabilityArgs(a, stressRate)))

\* a: principal, contractRate, amortizationYears, frequency,
\* grossAnnualIncome, monthlyDebts, propertyTax, heatingCost, condoFees
performStressTest(a) == StressTestAtRate(a, getStressTestRate(a.contractRate))

qualifiesUnderStressTest(a) == performStressTest(a).passesStressTest

(***************************************************************************)
(* Inputs                                                                  *)
(***************************************************************************)

\* the longest amortization a schedule is generated for, in years
MaxYears == 2

\* the data points of a sensitivity sweep the model keeps
MaxPoints == 30

\* loan principals in micro-dollars: $120.015, $312, $1000.005
Principals == {120015000, 312000000, 1000005000}

\* principals a validating caller would reject: $0 and -$500
InvalidPrincipals == {0, -500000000}

\* annual rates: 0%, 3%, 5.5%
Rates == {0, 300 * RateUnit, 550 * RateUnit}

Years == 1..MaxYears

\* a frequency string outside the PaymentFrequency union
UnknownFrequency == "quarterly"

\* the loans of the spec's LoanTerms: principal > 0, rate >= 0, years >= 1
ValidLoans ==
  [principal : Principals, annualRate : Rates,
   amortizationYears : Years, frequency : PaymentFrequency]

\* loans with exactly one field a validating caller would reject
InvalidLoans ==
  [principal : InvalidPrincipals, annualRate : Rates,
   amortizationYears : {1}, frequency : {"monthly", "accelerated-weekly"}]
  \cup [principal : {1000005000}, annualRate : Rates,
        amortizationYears : {0}, frequency : {"monthly", "bi-weekly"}]
  \cup [principal : {1000005000}, annualRate : Rates,
        amortizationYears : {1}, frequency : {UnknownFrequency}]

Loans == ValidLoans \cup InvalidLoans

\* annual rates next to 0% and to 3%: 0.00000002% and 3.00000002%
CloseRates == {1, 300 * RateUnit + 1}

\* valid loans at those rates
CloseRateLoans ==
  [principal : {1000005000}, annualRate : CloseRates,
   amortizationYears : {1}, frequency : {"monthly", "weekly"}]

IsValidLoan(loan) ==
  /\ loan.principal > 0
  /\ loan.annualRate >= 0
  /\ loan.amortizationYears >= 1
  /\ loan.frequency \in PaymentFrequency

\* the arguments of generateSensitivityAnalysis: base rates of 3% and 5.5%,
\* steps of 0, 0.25 and 1, ranges of 1 and 3 (0.25 and 3 are the defaults; a
\* step of 0 is a number too); and steps that are not whole hundredths of a
\* percent: 0.125 over a range of 1, 0.004 over a range of 0.01
SweepArgs ==
  [principal : {1000005000}, baseRate : {300 * RateUnit, 550 * RateUnit},
   amortizationYears : {1}, frequency : {"monthly", "accelerated-bi-weekly"},
   rateStep : {0, 25 * RateUnit, 100 * RateUnit},
   rangeAboveBelow : {100 * RateUnit, 300 * RateUnit}]
  \cup [principal : {1000005000}, baseRate : {300 * RateUnit},
        amortizationYears : {1}, frequency : {"monthly"},
        rateStep : {(25 * RateUnit) \div 2},
        rangeAboveBelow : {100 * RateUnit}]
  \cup [principal : {1000005000}, baseRate : {300 * RateUnit},
        amortizationYears : {1}, frequency : {"monthly"},
        rateStep : {(2 * RateUnit) \div 5},
        rangeAboveBelow : {RateUnit}]

\* the arguments of calculateAffordability, amounts in micro-dollars: the
\* thresholds left to their defaults, or given as 1000% and 2000%
AffordabilityArgs ==
  [principal : {120015000, 1000005000}, annualRate : Rates,
   amortizationYears : {1}, frequency : PaymentFrequency,
   grossAnnualIncome : {0, 375000000, 1500000000},
   monthlyDebts : {0, 25000000},
   propertyTax : {0}, heatingCost : {0}, condoFees : {0, 10000000},
   gdsThreshold : {DEFAULT_GDS_THRESHOLD},
   tdsThreshold : {DEFAULT_TDS_THRESHOLD}]
  \cup [principal : {120015000}, annualRate : {0, 300 * RateUnit},
        amortizationYears : {1}, frequency : {"monthly", "weekly"},
        grossAnnualIncome : {-600000000, 0, 1500000000},
        monthlyDebts : {0, 25000000},
        propertyTax : {0}, heatingCost : {0}, condoFees : {0},
        gdsThreshold : {1000 * RatioUnit},
        tdsThreshold : {2000 * RatioUnit}]

\* the arguments of calculateMaxAffordableMortgage, amounts in micro-dollars;
\* the rates are 0%, 3%, 5.5% and 0.00000002%
MaxAffordableArgs ==
  [grossAnnualIncome : {-120000000, 0, 375000000, 1500000000},
   monthlyDebts : {0, 25000000, 40000000},
   annualRate : Rates \cup {1}, amortizationYears : Years,
   propertyTax : {0}, heatingCost : {0, 10000000},
   condoFees : {0, 10000000},
   gdsThreshold : {DEFAULT_GDS_THRESHOLD},
   tdsThreshold : {DEFAULT_TDS_THRESHOLD}]

\* contract rates on both sides of 3.25%, from -1% to 12%
ContractRates ==
  {-100 * RateUnit, 0, 300 * RateUnit, 325 * RateUnit - 1, 325 * RateUnit,
   325 * RateUnit + 1, 400 * RateUnit, 550 * RateUnit, 1200 * RateUnit}

\* the arguments of performStressTest and qualifiesUnderStressTest, amounts
\* in micro-dollars
StressTestArgs ==
  [principal : {120015000},
   contractRate : {0, 300 * RateUnit, 400 * RateUnit},
   amortizationYears : {1}, frequency : PaymentFrequency,
   grossAnnualIncome : {0, 384000000, 900000000},
   monthlyDebts : {0, 25000000},
   propertyTax : {0}, heatingCost : {0}, condoFees : {0}]

\* the startDate argument left out (undefined)
NoStartDate == -1

\* the last day the wall clock reaches
MaxClock == 2

\* startDate arguments: left out, or day 10
StartDates == {NoStartDate, 10}

\* the loans of a session of several invocations
SessionLoans ==
  [principal : {120015000}, annualRate : {300 * RateUnit},
   amortizationYears : {0, 1},
   frequency : {"monthly", "accelerated-bi-weekly"}]

(***************************************************************************)
(* State                                                                   *)
(***************************************************************************)

VARIABLES
  pc,              \* "idle", the loop the running call is in, or "done"
  call,            \* the running or finished call: its name and arguments
  result,          \* the outcome of the finished call and what it returned
  i,               \* generateAmortizationSchedule: loop counter
  balance,         \* generateAmortizationSchedule: running balance
  paymentDate,     \* generateAmortizationSchedule: days after startDate
  roundedPayment,  \* generateAmortizationSchedule: level payment in cents
  periodicRate,    \* generateAmortizationSchedule: rate of one period
  totalPayments,   \* generateAmortizationSchedule: years x paymentsPerYear
  schedule,        \* generateAmortizationSchedule: entries pushed so far
  rate,            \* generateSensitivityAnalysis: loop variable
  dataPoints,      \* generateSensitivityAnalysis: points pushed so far
  clock,           \* the wall clock new Date() reads, in days
  remembered,      \* an earlier invocation: its call and what it returned
  clients,         \* the database: the rows of the Client table
  mortgages,       \* the database: the rows of the Mortgage table
  requests         \* the requests received: arguments, position, answer

scheduleVars ==
  <<i, balance, paymentDate, roundedPayment, periodicRate, totalPayments,
    schedule>>

sweepVars == <<rate, dataPoints>>

sessionVars == <<clock, remembered>>

storeVars == <<clients, mortgages, requests>>

engineVars == <<pc, call, result, scheduleVars, sweepVars, sessionVars>>

vars == <<engineVars, storeVars>>

NoCall == [fn |-> "none"]

NoResult == [outcome |-> "none"]

NothingRemembered == [call |-> NoCall, result |-> NoResult]

Init ==
  /\ pc = "idle"
  /\ call = NoCall
  /\ result = NoResult
  /\ i = 0
  /\ balance = 0
  /\ paymentDate = 0
  /\ roundedPayment = 0
  /\ periodicRate = 0
  /\ totalPayments = 0
  /\ schedule = <<>>
  /\ rate = 0
  /\ dataPoints = <<>>
  /\ clock = 0
  /\ remembered = NothingRemembered
  /\ clients = {}
  /\ mortgages = {}
  /\ requests = <<>>

(***************************************************************************)
(* calculatePayment, calculateAffordability and getStressTestRate on their  *)
(* own                                                                     *)
(***************************************************************************)

\* calculatePayment called with one of the given loans
CallCalculatePaymentOf(loans) ==
  /\ pc = "idle"
  /\ \E params \in loans :
       /\ call' = [fn |-> "calculatePayment", params |-> params]
       /\ result' = [outcome |-> "value",
                    payment |-> calculatePayment(params)]
  /\ pc' = "done"
  /\ UNCHANGED <<scheduleVars, sweepVars, sessionVars, storeVars>>

CallCalculatePayment == CallCalculatePaymentOf(Loans \cup CloseRateLoans)

\* calculateMaxMortgage called with the payment calculatePayment gives for a
\* loan, and with the loan's rate, years and frequency
CallCalculateMaxMortgage ==
  /\ pc = "idle"
  /\ \E params \in ValidLoans :
       \E monthlyPayment \in {calculatePayment(params)} :
          /\ call' = [fn |-> "calculateMaxMortgage", params |-> params,
                      monthlyPayment |-> monthlyPayment]
          /\ result' = [outcome |-> "value",
                        maxMortgage |->
                          calculateMaxMortgage(monthlyPayment,
                            params.annualRate, params.amortizationYears,
                            params.frequency)]
  /\ pc' = "done"
  /\ UNCHANGED <<scheduleVars, sweepVars, sessionVars, storeVars>>

CallCalculateAffordability ==
  /\ pc = "idle"
  /\ \E a \in AffordabilityArgs :
       /\ call' = [fn |-> "calculateAffordability", params |-> a]
       /\ result' = [outcome |-> "value",
                    affordability |-> calculateAffordability(a)]
  /\ pc' = "done"
  /\ UNCHANGED <<scheduleVars, sweepVars, sessionVars, storeVars>>

CallCalculateMaxAffordableMortgage ==
  /\ pc = "idle"
  /\ \E a \in MaxAffordableArgs :
       /\ call' = [fn |-> "calculateMaxAffordableMortgage", params |-> a]
       /\ result' = [outcome |-> "value",
                    maxAffordable |-> calculateMaxAffordableMortgage(a)]
  /\ pc' = "done"
  /\ UNCHANGED <<scheduleVars, sweepVars, sessionVars, storeVars>>

CallGetStressTestRate ==
  /\ pc = "idle"
  /\ \E contractRate \in ContractRates :
       /\ call' = [fn |-> "getStressTestRate", contractRate |-> contractRate]
       /\ result' = [outcome |-> "value",
                    stressRate |-> getStressTestRate(contractRate)]
  /\ pc' = "done"
  /\ UNCHANGED <<scheduleVars, sweepVars, sessionVars, storeVars>>

CallPerformStressTest ==
  /\ pc = "idle"
  /\ \E a \in StressTestArgs :
       /\ call' = [fn |-> "performStressTest", params |-> a]
       /\ result' = [outcome |-> "value", stressTest |-> performStressTest(a)]
  /\ pc' = "done"
  /\ UNCHANGED <<scheduleVars, sweepVars, sessionVars, storeVars>>

CallQualifiesUnderStressTest ==
  /\ pc = "idle"
  /\ \E a \in StressTestArgs :
       /\ call' = [fn |-> "qualifiesUnderStressTest", params |-> a]
       /\ result' = [outcome |-> "value",
                    qualifies |-> qualifiesUnderStressTest(a)]
  /\ pc' = "done"
  /\ UNCHANGED <<scheduleVars, sweepVars, sessionVars, storeVars>>

(***************************************************************************)
(* generateAmortizationSchedule                                            *)
(***************************************************************************)

\* startDate: Date = new Date(): the given date, or the clock's when the
\* argument is omitted
DefaultStartDate(startDate, now) ==
  IF startDate = NoStartDate THEN now ELSE startDate

\* the statements before the loop, for one of the given loans and start dates
ScheduleBeginOf(loans, startDates) ==
  /\ pc = "idle"
  /\ \E params \in loans, startDate \in startDates :
       \E payment \in {calculatePayment(params)},
          paymentsPerYear \in {getPaymentsPerYear(params.frequency)} :
          /\ call' = [fn |-> "generateAmortizationSchedule",
                      params |-> params, startDate |-> startDate]
          /\ periodicRate' = getPeriodicRate(params.annualRate,
                                             paymentsPerYear)
          /\ totalPayments' = params.amortizationYears * paymentsPerYear
          /\ roundedPayment' = RoundToCents(payment)
          /\ balance' = RoundToCents(params.principal)
          /\ paymentDate' = DefaultStartDate(startDate, clock)
  /\ schedule' = <<>>
  /\ i' = 1
  /\ pc' = "schedule"
  /\ UNCHANGED <<result, sweepVars, sessionVars, storeVars>>

\* the callers of the repository leave startDate out
ScheduleBegin == ScheduleBeginOf(Loans, {NoStartDate})

\* the loop condition written with < for <=
ScheduleLoopConditionStrict(k, n) == k < n

\* the loop condition i <= totalPayments
ScheduleLoopCondition(k, n) == k <= n

\* interest of at least one cent on every payment
RoundedInterestAtLeastCent(bal, c) ==
  IF Round2(FMulFloor(bal, c)) > Cent THEN Round2(FMulFloor(bal, c)) ELSE Cent

\* Math.round(balance * periodicRate * 100) / 100
RoundedInterest(bal, c) == Round2(FMulFloor(bal, c))

\* the principal portion taken to be the whole payment
PrincipalPaymentWhole(level, roundedInterest) == level

\* the principal portion with its operands exchanged
PrincipalPaymentExchanged(level, roundedInterest) == roundedInterest - level

\* roundedPayment - roundedInterest
PrincipalPayment(level, roundedInterest) == level - roundedInterest

\* the new balance without Math.max(0, ...)
NextBalanceUnclamped(bal, principalPayment) == Round2(bal - principalPayment)

\* Math.max(0, Math.round((balance - principalPayment) * 100) / 100)
NextBalance(bal, principalPayment) ==
  IF Round2(bal - principalPayment) > 0
  THEN Round2(bal - principalPayment)
  ELSE 0

\* the last entry recording the balance before the payment, not 0
FinalEntryUnadjusted(n, date, bal, roundedInterest) ==
  [paymentNumber |-> n,
   paymentDate   |-> date,
   payment       |-> Round2(roundedInterest + bal),
   principal     |-> Round2(bal),
   interest      |-> roundedInterest,
   balance       |-> bal]

\* the last entry with the remaining balance as its payment, the interest
\* left out
FinalEntryWithoutInterest(n, date, bal, roundedInterest) ==
  [paymentNumber |-> n,
   paymentDate   |-> date,
   payment       |-> Round2(bal),
   principal     |-> Round2(bal),
   interest      |-> roundedInterest,
   balance       |-> 0]

\* the entry pushed by the last iteration: the remaining balance is paid
FinalEntry(n, date, bal, roundedInterest) ==
  [paymentNumber |-> n,
   paymentDate   |-> date,
   payment       |-> Round2(roundedInterest + bal),
   principal     |-> Round2(bal),
   interest      |-> roundedInterest,
   balance       |-> 0]

\* the entry pushed by any other iteration
RegularEntry(n, date, level, principalPayment, roundedInterest, newBalance) ==
  [paymentNumber |-> n,
   paymentDate   |-> date,
   payment       |-> level,
   principal     |-> Round2(principalPayment),
   interest      |-> roundedInterest,
   balance       |-> newBalance]

\* one iteration of the loop body; the last one ends with break and return
ScheduleIterate ==
  /\ pc = "schedule"
  /\ ScheduleLoopCondition(i, totalPayments)
  /\ \E roundedInterest \in {RoundedInterest(balance, periodicRate)} :
       \E principalPayment \in
            {PrincipalPayment(roundedPayment, roundedInterest)} :
          IF i = totalPayments
          THEN /\ schedule' = Append(schedule,
                    FinalEntry(i, paymentDate, balance, roundedInterest))
               /\ result' = [outcome |-> "value", schedule |-> schedule']
               /\ pc' = "done"
               /\ UNCHANGED <<i, balance, paymentDate>>
          ELSE /\ balance' = NextBalance(balance, principalPayment)
               /\ schedule' = Append(schedule,
                    RegularEntry(i, paymentDate, roundedPayment,
                                 principalPayment, roundedInterest, balance'))
               /\ paymentDate' = paymentDate
                    + (365 \div getPaymentsPerYear(call.params.frequency))
               /\ i' = i + 1
               /\ UNCHANGED <<pc, result>>
  /\ UNCHANGED <<call, roundedPayment, periodicRate, totalPayments, sweepVars,
               sessionVars, storeVars>>

\* the loop condition fails: return schedule
ScheduleReturn ==
  /\ pc = "schedule"
  /\ ~ScheduleLoopCondition(i, totalPayments)
  /\ result' = [outcome |-> "value", schedule |-> schedule]
  /\ pc' = "done"
  /\ UNCHANGED <<call, scheduleVars, sweepVars, sessionVars, storeVars>>

(***************************************************************************)
(* generateYearlyAmortizationSummary                                       *)
(***************************************************************************)

\* yearPayments.reduce((sum, p) => sum + p[field], 0) over the entries
\* lo..hi of the schedule s
RECURSIVE SumOfBlock(_, _, _, _)
SumOfBlock(s, field, lo, hi) ==
  IF hi < lo THEN 0 ELSE SumOfBlock(s, field, lo, hi - 1) + s[hi][field]

\* the end of a year's block taken one entry short
SummaryEndIndexShort(year, paymentsPerYear, length) ==
  IF year * paymentsPerYear - 1 < length
  THEN year * paymentsPerYear - 1 ELSE length

\* Math.min(year * paymentsPerYear, fullSchedule.length)
SummaryEndIndex(year, paymentsPerYear, length) ==
  IF year * paymentsPerYear < length THEN year * paymentsPerYear ELSE length

\* yearPayments[yearPayments.length - 1]?.balance || 0 for the block lo..hi
SummaryEndBalance(s, lo, hi) == IF hi < lo THEN 0 ELSE s[hi].balance

\* the row pushed for one year from the sums of its block
SummaryRow(year, principalPaid, interestPaid, endBalance) ==
  [year          |-> year,
   principalPaid |-> RoundToCents(principalPaid),
   interestPaid  |-> RoundToCents(interestPaid),
   balance       |-> RoundToCents(endBalance),
   totalPaid     |-> RoundToCents(principalPaid + interestPaid)]

\* the row of the year whose block is the entries lo..hi of the schedule s
SummaryOfBlock(s, year, lo, hi) ==
  SummaryRow(year, SumOfBlock(s, "principal", lo, hi),
             SumOfBlock(s, "interest", lo, hi), SummaryEndBalance(s, lo, hi))

\* the loop over year = 1..amortizationYears on the full schedule
YearlySummary(fullSchedule, amortizationYears, paymentsPerYear) ==
  [year \in 1..amortizationYears |->
     SummaryOfBlock(fullSchedule, year, (year - 1) * paymentsPerYear + 1,
                    SummaryEndIndex(year, paymentsPerYear,
                                    Len(fullSchedule)))]

\* generateYearlyAmortizationSummary from the point where its call of
\* generateAmortizationSchedule, made without a start date, has returned
\* fullSchedule: the loop over the years, and the return
CallGenerateYearlyAmortizationSummary ==
  /\ pc = "done"
  /\ call.fn = "generateAmortizationSchedule"
  /\ call.startDate = NoStartDate
  /\ call' = [fn |-> "generateYearlyAmortizationSummary",
              params |-> call.params]
  /\ result' = [outcome |-> "value",
                yearlySummary |->
                  YearlySummary(result.schedule,
                                call.params.amortizationYears,
                                getPaymentsPerYear(call.params.frequency))]
  /\ UNCHANGED <<pc, scheduleVars, sweepVars, sessionVars, storeVars>>

(***************************************************************************)
(* generateSensitivityAnalysis                                             *)
(***************************************************************************)

\* Math.max(0.1, baseRate - rangeAboveBelow)
SweepMinRate(a) ==
  IF a.baseRate - a.rangeAboveBelow > 10 * RateUnit
  THEN a.baseRate - a.rangeAboveBelow ELSE 10 * RateUnit

\* baseRate + rangeAboveBelow
SweepMaxRate(a) == a.baseRate + a.rangeAboveBelow

\* the statements before the loop
SweepBegin ==
  /\ pc = "idle"
  /\ \E a \in SweepArgs :
       /\ call' = [fn |-> "generateSensitivityAnalysis", params |-> a]
       /\ rate' = SweepMinRate(a)
  /\ dataPoints' = <<>>
  /\ pc' = "sweep"
  /\ UNCHANGED <<result, scheduleVars, sessionVars, storeVars>>

\* the point pushed for one rate
SweepPoint(a, r, monthlyPayment, totalInterest) ==
  [interestRate   |-> RoundRate(r),
   monthlyPayment |-> RoundToCents(monthlyPayment),
   totalInterest  |-> RoundToCents(totalInterest),
   totalCost      |-> RoundToCents(a.principal + totalInterest)]

\* one iteration of the loop: push a point, rate += rateStep.  The model
\* keeps the first MaxPoints points of the array, which is all that a sweep
\* with a positive step pushes.
SweepIterate ==
  /\ pc = "sweep"
  /\ rate <= SweepMaxRate(call.params)
  /\ \E payment \in
          {calculatePayment(
             [principal |-> call.params.principal,
              annualRate |-> rate,
              amortizationYears |-> call.params.amortizationYears,
              frequency |-> call.params.frequency])} :
       dataPoints' =
         IF Len(dataPoints) < MaxPoints
         THEN Append(dataPoints,
                SweepPoint(call.params, rate,
                  convertToMonthlyPayment(payment, call.params.frequency),
                  calculateTotalInterest(call.params.principal, payment,
                                         call.params.frequency,
                                         call.params.amortizationYears)))
         ELSE dataPoints
  /\ rate' = rate + call.params.rateStep
  /\ UNCHANGED <<pc, call, result, scheduleVars, sessionVars, storeVars>>

\* the loop condition fails: return dataPoints
SweepReturn ==
  /\ pc = "sweep"
  /\ ~(rate <= SweepMaxRate(call.params))
  /\ result' = [outcome |-> "value", dataPoints |-> dataPoints]
  /\ pc' = "done"
  /\ UNCHANGED <<call, scheduleVars, sweepVars, sessionVars, storeVars>>

(***************************************************************************)
(* calculateRateBreakeven                                                  *)
(***************************************************************************)

\* x - y on numbers: NaN when either one is NaN
Minus(x, y) == IF x = NaN \/ y = NaN THEN NaN ELSE x - y

\* monthlyDifference >= 0 ? 0 : Infinity
BreakevenMonthsFromZero(monthlyDifference) ==
  IF monthlyDifference # NaN /\ monthlyDifference >= 0 THEN 0 ELSE Infinity

\* monthlyDifference > 0 ? 0 : Infinity (a comparison with NaN is false)
BreakevenMonths(monthlyDifference) ==
  IF monthlyDifference # NaN /\ monthlyDifference > 0 THEN 0 ELSE Infinity

\* the value returned, from the two payments
RateBreakevenOfPayments(a, fixedPayment, variablePayment) ==
  [monthlyDifference |->
     RoundToCents(Minus(convertToMonthlyPayment(fixedPayment, a.frequency),
                        convertToMonthlyPayment(variablePayment,
                                                a.frequency))),
   breakevenMonths |->
     BreakevenMonths(Minus(convertToMonthlyPayment(fixedPayment, a.frequency),
                           convertToMonthlyPayment(variablePayment,
                                                   a.frequency))),
   totalSavingsVariable |->
     RoundToCents(
       Minus(calculateTotalInterest(a.principal, fixedPayment, a.frequency,
                                    a.amortizationYears),
             calculateTotalInterest(a.principal, variablePayment, a.frequency,
                                    a.amortizationYears)))]

\* the loan of a with the given rate
LoanAtRate(a, annualRate) ==
  [principal |-> a.principal, annualRate |-> annualRate,
   amortizationYears |-> a.amortizationYears, frequency |-> a.frequency]

\* a: principal, fixedRate, variableRate, amortizationYears, frequency
calculateRateBreakeven(a) ==
  RateBreakevenOfPayments(a, calculatePayment(LoanAtRate(a, a.fixedRate)),
                          calculatePayment(LoanAtRate(a, a.variableRate)))

\* the arguments of calculateRateBreakeven: a principal of $1000.005, and
\* for each rate 0%, 0.00000002%, 3% and 5.5%
BreakevenArgs ==
  [principal : {1000005000}, fixedRate : Rates \cup {1},
   variableRate : Rates \cup {1}, amortizationYears : Years,
   frequency : PaymentFrequency]

CallCalculateRateBreakeven ==
  /\ pc = "idle"
  /\ \E a \in BreakevenArgs :
       /\ call' = [fn |-> "calculateRateBreakeven", params |-> a]
       /\ result' = [outcome |-> "value",
                    breakeven |-> calculateRateBreakeven(a)]
  /\ pc' = "done"
  /\ UNCHANGED <<scheduleVars, sweepVars, sessionVars, storeVars>>

(***************************************************************************)
(* Specification                                                           *)
(***************************************************************************)

Next ==
  \/ CallCalculatePayment
  \/ CallCalculateMaxMortgage
  \/ CallCalculateAffordability
  \/ CallCalculateMaxAffordableMortgage
  \/ CallGetStressTestRate
  \/ CallPerformStressTest
  \/ CallQualifiesUnderStressTest
  \/ ScheduleBegin
  \/ ScheduleIterate
  \/ ScheduleReturn
  \/ CallGenerateYearlyAmortizationSummary
  \/ SweepBegin
  \/ SweepIterate
  \/ SweepReturn
  \/ CallCalculateRateBreakeven

Spec == Init /\ [][Next]_vars

(***************************************************************************)
(* A session: invocations one after another, the clock running on between  *)
(* them.  A call runs to its end before the next one starts.               *)
(***************************************************************************)

\* a day passes
Tick ==
  /\ pc = "idle"
  /\ clock < MaxClock
  /\ clock' = clock + 1
  /\ UNCHANGED <<pc, call, result, scheduleVars, sweepVars, remembered,
               storeVars>>

\* the finished call's result is taken by the caller, who may keep it; the
\* locals of the call are gone, and the next invocation may start
Return ==
  /\ pc = "done"
  /\ pc' = "idle"
  /\ \/ /\ remembered = NothingRemembered
        /\ remembered' = [call |-> call, result |-> result]
     \/ UNCHANGED remembered
  /\ call' = NoCall
  /\ result' = NoResult
  /\ i' = 0
  /\ balance' = 0
  /\ paymentDate' = 0
  /\ roundedPayment' = 0
  /\ periodicRate' = 0
  /\ totalPayments' = 0
  /\ schedule' = <<>>
  /\ UNCHANGED <<sweepVars, clock, storeVars>>

SessionCalculatePayment == CallCalculatePaymentOf(SessionLoans)

SessionScheduleBegin == ScheduleBeginOf(SessionLoans, StartDates)

SessionNext ==
  \/ SessionCalculatePayment
  \/ SessionScheduleBegin
  \/ ScheduleIterate
  \/ ScheduleReturn
  \/ Tick
  \/ Return

SessionSpec == Init /\ [][SessionNext]_vars

(***************************************************************************)
(* The client store: POST, PUT and DELETE /api/clients, POST               *)
(* /api/mortgages and the server action saveCalculation, run by any number *)
(* of requests at once.  Each await of a database call is a point where    *)
(* other requests run; a database call itself is atomic.  The Client table *)
(* keeps email unique (README.md, Database Schema): a create or update     *)
(* that would repeat an email throws.  A Mortgage row refers to its Client *)
(* row: it cannot be created for a client that is not stored, and goes     *)
(* when its client is deleted.                                             *)
(***************************************************************************)

\* the requests the model receives
MaxRequests == 2

\* the emails requests carry
ApiEmails == {"ann@x.ca", "bob@x.ca"}

\* a body without email
NoEmail == ""

\* no client: the null of findUnique, and the id of a request that has none
NoClient == 0

\* a request as received
NewRequest(kind, email, id) ==
  [kind |-> kind, pc |-> "received", email |-> email, id |-> id,
   found |-> NoClient, outcome |-> "pending", stored |-> NoClient,
   clientId |-> NoClient, mortgageId |-> 0, emailTaken |-> FALSE,
   undisturbed |-> TRUE, before |-> [clients |-> {}, mortgages |-> 0],
   principal |-> 0, interestRate |-> 0]

\* the larger of two numbers
Larger(x, y) == IF x < y THEN y ELSE x

\* the greatest of the numbers f[1], ..., f[n], or 0
RECURSIVE Greatest(_, _)
Greatest(f, n) == IF n = 0 THEN 0 ELSE Larger(f[n], Greatest(f, n - 1))

\* prisma.client.findUnique({ where: { email } }): the id found, or none
FindByEmail(email) ==
  IF \E c \in clients : c.email = email
  THEN (CHOOSE c \in clients : c.email = email).id
  ELSE NoClient

\* prisma.client.findUnique({ where: { id } }): the id found, or none
FindById(id) == IF \E c \in clients : c.id = id THEN id ELSE NoClient

\* the unique constraint on Client.email: no row other than id has the email
EmailFree(email, id) == \A c \in clients : c.email = email => c.id = id

\* the id of a new Client row: one no row has had
NewClientId ==
  Greatest([q \in DOMAIN requests |-> requests[q].stored], Len(requests)) + 1

\* the id of a new Mortgage row: one no row has had
NewMortgageId ==
  Greatest([q \in DOMAIN requests |-> requests[q].mortgageId],
           Len(requests)) + 1

\* the requests after request r has written to the database: every other
\* request still running has had the database changed under it
AfterWriteBy(r, reqs) ==
  [q \in DOMAIN reqs |->
     IF q # r /\ reqs[q].outcome = "pending"
     THEN [reqs[q] EXCEPT !.undisturbed = FALSE]
     ELSE reqs[q]]

\* POST: the body is read and validated; without name or email, 400
ReceivePost ==
  /\ Len(requests) < MaxRequests
  /\ \E email \in ApiEmails \cup {NoEmail} :
       requests' = Append(requests,
         IF email = NoEmail
         THEN [NewRequest("POST", email, NoClient)
                 EXCEPT !.pc = "answered", !.outcome = "400"]
         ELSE NewRequest("POST", email, NoClient))
  /\ UNCHANGED <<engineVars, clients, mortgages>>

\* POST: findUnique by email; an existing client is answered 409
PostFind ==
  /\ \E r \in DOMAIN requests :
       /\ requests[r].kind = "POST"
       /\ requests[r].pc = "received"
       /\ requests' = [requests EXCEPT ![r] =
            IF FindByEmail(requests[r].email) # NoClient
            THEN [@ EXCEPT !.found = FindByEmail(requests[r].email),
                           !.emailTaken = TRUE,
                           !.pc = "answered", !.outcome = "409"]
            ELSE [@ EXCEPT !.pc = "create"]]
  /\ UNCHANGED <<engineVars, clients, mortgages>>

\* POST: create; the row is stored and answered 201, or the unique
\* constraint throws and the catch answers 500
PostCreate ==
  /\ \E r \in DOMAIN requests :
       /\ requests[r].kind = "POST"
       /\ requests[r].pc = "create"
       /\ IF EmailFree(requests[r].email, NoClient)
          THEN /\ clients' = clients \cup
                    {[id |-> NewClientId, email |-> requests[r].email,
                      name |-> "posted"]}
               /\ requests' = AfterWriteBy(r, [requests EXCEPT ![r] =
                    [@ EXCEPT !.stored = NewClientId,
                              !.pc = "answered", !.outcome = "201"]])
          ELSE /\ requests' = [requests EXCEPT ![r] =
                    [@ EXCEPT !.emailTaken = TRUE,
                              !.pc = "answered", !.outcome = "500"]]
               /\ UNCHANGED clients
  /\ UNCHANGED <<engineVars, mortgages>>

\* PUT: the body is read, with or without an email; without id, 400
ReceivePut ==
  /\ Len(requests) < MaxRequests
  /\ \E id \in 0..MaxRequests, email \in ApiEmails \cup {NoEmail} :
       requests' = Append(requests,
         IF id = NoClient
         THEN [NewRequest("PUT", email, id)
                 EXCEPT !.pc = "answered", !.outcome = "400"]
         ELSE NewRequest("PUT", email, id))
  /\ UNCHANGED <<engineVars, clients, mortgages>>

\* PUT: findUnique by id; no such client is answered 404
PutFind ==
  /\ \E r \in DOMAIN requests :
       /\ requests[r].kind = "PUT"
       /\ requests[r].pc = "received"
       /\ requests' = [requests EXCEPT ![r] =
            IF FindById(requests[r].id) = NoClient
            THEN [@ EXCEPT !.pc = "answered", !.outcome = "404"]
            ELSE [@ EXCEPT !.found = requests[r].id, !.pc = "update"]]
  /\ UNCHANGED <<engineVars, clients, mortgages>>

\* the row c with the email of a PUT, when the body has one
PutUpdatedClient(c, email) ==
  IF email = NoEmail THEN c ELSE [c EXCEPT !.email = email]

\* PUT: update; the row takes the email and the answer is 200, or the
\* unique constraint throws and the catch answers 500
PutUpdate ==
  /\ \E r \in DOMAIN requests :
       /\ requests[r].kind = "PUT"
       /\ requests[r].pc = "update"
       /\ IF EmailFree(requests[r].email, requests[r].id)
          THEN /\ clients' =
                    {IF c.id = requests[r].id
                     THEN PutUpdatedClient(c, requests[r].email)
                     ELSE c : c \in clients}
               /\ requests' = AfterWriteBy(r, [requests EXCEPT ![r] =
                    [@ EXCEPT !.stored = requests[r].id,
                              !.pc = "answered", !.outcome = "200"]])
          ELSE /\ requests' = [requests EXCEPT ![r] =
                    [@ EXCEPT !.emailTaken = TRUE,
                              !.pc = "answered", !.outcome = "500"]]
               /\ UNCHANGED clients
  /\ UNCHANGED <<engineVars, mortgages>>

\* a request with the principal and interestRate of its input
WithMortgageTerms(request, terms) ==
  [request EXCEPT !.principal = terms.principal,
                  !.interestRate = terms.interestRate]

\* the principal and interestRate of a saved calculation: $312 at 5.5%
SavedTerms == [principal |-> 312000000, interestRate |-> 550 * RateUnit]

\* saveCalculation is called, the input having one of the given emails and
\* terms
ReceiveSaveOf(limit, emails, terms) ==
  /\ Len(requests) < limit
  /\ \E email \in emails, t \in terms :
       requests' = Append(requests,
         WithMortgageTerms(NewRequest("save", email, NoClient), t))
  /\ UNCHANGED <<engineVars, clients, mortgages>>

ReceiveSave == ReceiveSaveOf(MaxRequests, ApiEmails, {SavedTerms})

\* saveCalculation: findUnique by email
SaveFind ==
  /\ \E r \in DOMAIN requests :
       /\ requests[r].kind = "save"
       /\ requests[r].pc = "received"
       /\ requests' = [requests EXCEPT ![r] =
            [@ EXCEPT !.found = FindByEmail(requests[r].email),
                      !.before = [clients |-> clients,
                                  mortgages |-> Cardinality(mortgages)],
                      !.pc = IF FindByEmail(requests[r].email) # NoClient
                             THEN "update" ELSE "create"]]
  /\ UNCHANGED <<engineVars, clients, mortgages>>

\* the existing client replaced by a new row
SaveReplacedClient(c, id) == [c EXCEPT !.id = id, !.name = "saved"]

\* the existing client with the name, phone, income and debts of the input
SaveUpdatedClient(c, id) == [c EXCEPT !.name = "saved"]

\* saveCalculation: the client found is updated where id = client.id, and
\* the row the update returns is the client from here on
SaveUpdate ==
  /\ \E r \in DOMAIN requests :
       /\ requests[r].kind = "save"
       /\ requests[r].pc = "update"
       /\ \E c \in {x \in clients : x.id = requests[r].found} :
            /\ clients' = (clients \ {c}) \cup
                 {SaveUpdatedClient(c, NewClientId)}
            /\ requests' = AfterWriteBy(r, [requests EXCEPT ![r] =
                 [@ EXCEPT !.stored = SaveUpdatedClient(c, NewClientId).id,
                           !.clientId = SaveUpdatedClient(c, NewClientId).id,
                           !.pc = "mortgage"]])
  /\ UNCHANGED <<engineVars, mortgages>>

\* saveCalculation: no client was found and one is created, or the unique
\* constraint throws and the catch returns success = false
SaveCreate ==
  /\ \E r \in DOMAIN requests :
       /\ requests[r].kind = "save"
       /\ requests[r].pc = "create"
       /\ IF EmailFree(requests[r].email, NoClient)
          THEN /\ clients' = clients \cup
                    {[id |-> NewClientId, email |-> requests[r].email,
                      name |-> "saved"]}
               /\ requests' = AfterWriteBy(r, [requests EXCEPT ![r] =
                    [@ EXCEPT !.stored = NewClientId,
                              !.clientId = NewClientId,
                              !.pc = "mortgage"]])
          ELSE /\ requests' = [requests EXCEPT ![r] =
                    [@ EXCEPT !.emailTaken = TRUE,
                              !.pc = "answered", !.outcome = "failure"]]
               /\ UNCHANGED clients
  /\ UNCHANGED <<engineVars, mortgages>>

\* the Mortgage row a request creates for a client
NewMortgage(request, clientId) ==
  [id |-> NewMortgageId, clientId |-> clientId,
   principal |-> request.principal, interestRate |-> request.interestRate]

\* saveCalculation: the mortgage is created with the principal and the
\* interestRate of the input and success = true returned, or the database
\* call throws (it does when the client is no longer stored) and the catch
\* returns success = false
SaveMortgage ==
  /\ \E r \in DOMAIN requests :
       /\ requests[r].kind = "save"
       /\ requests[r].pc = "mortgage"
       /\ \/ /\ FindById(requests[r].clientId) # NoClient
             /\ mortgages' = mortgages \cup
                  {NewMortgage(requests[r], requests[r].clientId)}
             /\ requests' = AfterWriteBy(r, [requests EXCEPT ![r] =
                  [@ EXCEPT !.mortgageId = NewMortgageId,
                            !.pc = "answered", !.outcome = "success"]])
          \/ /\ requests' = [requests EXCEPT ![r] =
                  [@ EXCEPT !.pc = "answered", !.outcome = "failure"]]
             /\ UNCHANGED mortgages
  /\ UNCHANGED <<engineVars, clients>>

ApiNext ==
  \/ ReceivePost
  \/ PostFind
  \/ PostCreate
  \/ ReceivePut
  \/ PutFind
  \/ PutUpdate
  \/ ReceiveSave
  \/ SaveFind
  \/ SaveUpdate
  \/ SaveCreate
  \/ SaveMortgage

ApiSpec == Init /\ [][ApiNext]_vars

(***************************************************************************)
(* POST /api/mortgages and DELETE /api/clients, with saveCalculation       *)
(***************************************************************************)

\* the email of every saveCalculation here
StoreEmails == {"ann@x.ca"}

\* principal and interestRate as requests give them: $312 at 5.5% and at
\* 0%, $0 and -$500 at 5.5%, $312 at -1%
MortgageTerms ==
  {SavedTerms,
   [principal |-> 312000000, interestRate |-> 0],
   [principal |-> 0, interestRate |-> 550 * RateUnit],
   [principal |-> -500000000, interestRate |-> 550 * RateUnit],
   [principal |-> 312000000, interestRate |-> -100 * RateUnit]}

\* the validation of POST /api/mortgages passes
ValidMortgageBody(clientId, terms) ==
  /\ clientId # NoClient
  /\ ~(terms.principal <= 0)
  /\ ~(terms.interestRate < 0)

StoreReceiveSave == ReceiveSaveOf(MaxRequests, StoreEmails, MortgageTerms)

\* POST /api/mortgages: the body is read and validated; without clientId,
\* with a principal <= 0 or with an interestRate < 0, 400
ReceiveMortgagePost ==
  /\ Len(requests) < MaxRequests
  /\ \E id \in 0..MaxRequests, t \in MortgageTerms :
       requests' = Append(requests,
         IF ValidMortgageBody(id, t)
         THEN WithMortgageTerms(NewRequest("POST mortgage", NoEmail, id), t)
         ELSE [WithMortgageTerms(NewRequest("POST mortgage", NoEmail, id), t)
                 EXCEPT !.pc = "answered", !.outcome = "400"])
  /\ UNCHANGED <<engineVars, clients, mortgages>>

\* POST /api/mortgages: findUnique by id; no such client is answered 404
MortgagePostFind ==
  /\ \E r \in DOMAIN requests :
       /\ requests[r].kind = "POST mortgage"
       /\ requests[r].pc = "received"
       /\ requests' = [requests EXCEPT ![r] =
            IF FindById(requests[r].id) = NoClient
            THEN [@ EXCEPT !.pc = "answered", !.outcome = "404"]
            ELSE [@ EXCEPT !.found = requests[r].id, !.pc = "create"]]
  /\ UNCHANGED <<engineVars, clients, mortgages>>

\* POST /api/mortgages: create; the row is stored and answered 201, or the
\* client is no longer stored, the create throws and the catch answers 500
MortgagePostCreate ==
  /\ \E r \in DOMAIN requests :
       /\ requests[r].kind = "POST mortgage"
       /\ requests[r].pc = "create"
       /\ IF FindById(requests[r].id) # NoClient
          THEN /\ mortgages' = mortgages \cup
                    {NewMortgage(requests[r], requests[r].id)}
               /\ requests' = AfterWriteBy(r, [requests EXCEPT ![r] =
                    [@ EXCEPT !.mortgageId = NewMortgageId,
                              !.pc = "answered", !.outcome = "201"]])
          ELSE /\ requests' = [requests EXCEPT ![r] =
                    [@ EXCEPT !.pc = "answered", !.outcome = "500"]]
               /\ UNCHANGED mortgages
  /\ UNCHANGED <<engineVars, clients>>

\* DELETE /api/clients: the id is read from the query; without id, 400
ReceiveDelete ==
  /\ Len(requests) < MaxRequests
  /\ \E id \in 0..MaxRequests :
       requests' = Append(requests,
         IF id = NoClient
         THEN [NewRequest("DELETE", NoEmail, id)
                 EXCEPT !.pc = "answered", !.outcome = "400"]
         ELSE NewRequest("DELETE", NoEmail, id))
  /\ UNCHANGED <<engineVars, clients, mortgages>>

\* DELETE: findUnique by id; no such client is answered 404
DeleteFind ==
  /\ \E r \in DOMAIN requests :
       /\ requests[r].kind = "DELETE"
       /\ requests[r].pc = "received"
       /\ requests' = [requests EXCEPT ![r] =
            IF FindById(requests[r].id) = NoClient
            THEN [@ EXCEPT !.pc = "answered", !.outcome = "404"]
            ELSE [@ EXCEPT !.found = requests[r].id, !.pc = "delete"]]
  /\ UNCHANGED <<engineVars, clients, mortgages>>

\* DELETE: the client goes and its mortgages with it, answered 200; or the
\* client is no longer stored, the delete throws and the catch answers 500
DeleteClient ==
  /\ \E r \in DOMAIN requests :
       /\ requests[r].kind = "DELETE"
       /\ requests[r].pc = "delete"
       /\ IF FindById(requests[r].id) # NoClient
          THEN /\ clients' = {c \in clients : c.id # requests[r].id}
               /\ mortgages' =
                    {m \in mortgages : m.clientId # requests[r].id}
               /\ requests' = AfterWriteBy(r, [requests EXCEPT ![r] =
                    [@ EXCEPT !.pc = "answered", !.outcome = "200"]])
          ELSE /\ requests' = [requests EXCEPT ![r] =
                    [@ EXCEPT !.pc = "answered", !.outcome = "500"]]
               /\ UNCHANGED <<clients, mortgages>>
  /\ UNCHANGED engineVars

StoreNext ==
  \/ StoreReceiveSave
  \/ SaveFind
  \/ SaveUpdate
  \/ SaveCreate
  \/ SaveMortgage
  \/ ReceiveMortgagePost
  \/ MortgagePostFind
  \/ MortgagePostCreate
  \/ ReceiveDelete
  \/ DeleteFind
  \/ DeleteClient

StoreSpec == Init /\ [][StoreNext]_vars

\* every call runs on: the JavaScript engine runs a started call to its end
FairSpec == Spec /\ WF_vars(Next)

(***************************************************************************)
(* Properties of generateAmortizationSchedule                              *)
(***************************************************************************)

\* generateAmortizationSchedule has returned
ScheduleDone == pc = "done" /\ call.fn = "generateAmortizationSchedule"

\* the entries of s up to the k-th: the sum of their principal fields
RECURSIVE SumPrincipal(_, _)
SumPrincipal(s, k) ==
  IF k = 0 THEN 0 ELSE s[k].principal + SumPrincipal(s, k - 1)

\* C1: for every valid loan and each of the six frequencies, the last entry
\* of the schedule generateAmortizationSchedule returns has balance exactly 0
C1_FinalBalanceZero ==
  (ScheduleDone /\ IsValidLoan(call.params)) =>
    /\ Len(result.schedule) > 0
    /\ result.schedule[Len(result.schedule)].balance = 0

\* a returned schedule of a valid loan whose balance was still owed before
\* the last payment, and whose last entry pays exactly that and ends at 0
C1_Witness ==
  /\ ScheduleDone
  /\ IsValidLoan(call.params)
  /\ Len(result.schedule) >= 2
  /\ result.schedule[Len(result.schedule) - 1].balance > 0
  /\ result.schedule[Len(result.schedule)].principal
       = result.schedule[Len(result.schedule) - 1].balance
  /\ result.schedule[Len(result.schedule)].balance = 0

\* C2: for every valid loan and each of the six frequencies, the principal
\* fields of the returned schedule sum to the loan principal to within less
\* than one cent
C2_PrincipalSumsToLoan ==
  (ScheduleDone /\ IsValidLoan(call.params)) =>
    Abs(SumPrincipal(result.schedule, Len(result.schedule))
          - call.params.principal) < Cent

C4_LengthAndNumbering ==
  (ScheduleDone /\ IsValidLoan(call.params)) =>
    /\ Len(result.schedule) = call.params.amortizationYears
                             * getPaymentsPerYear(call.params.frequency)
    /\ \A k \in 1..Len(result.schedule) : result.schedule[k].paymentNumber = k

\* a returned two-year weekly schedule: 104 entries, the last numbered 104
C4_Witness ==
  /\ ScheduleDone
  /\ IsValidLoan(call.params)
  /\ call.params.frequency = "weekly"
  /\ call.params.amortizationYears = 2
  /\ Len(result.schedule) = 104
  /\ result.schedule[104].paymentNumber = 104

BalanceBefore(s, k, principal) ==
  IF k = 1 THEN RoundToCents(principal) ELSE s[k - 1].balance

\* C21: in every entry of the schedule of a valid loan, for every frequency,
\* the principal portion is at most the balance outstanding just before the
\* payment, so that each balance before the last is the previous balance
\* less the principal portion, the clamp at 0 never taking effect
C21_PrincipalWithinBalance ==
  (ScheduleDone /\ IsValidLoan(call.params)) =>
    \A k \in 1..Len(result.schedule) :
      /\ result.schedule[k].principal
           <= BalanceBefore(result.schedule, k, call.params.principal)
      /\ k < Len(result.schedule) =>
           result.schedule[k].balance
             = BalanceBefore(result.schedule, k, call.params.principal)
                 - result.schedule[k].principal

\* C22: in the last entry of a generated schedule the principal portion is
\* the balance left by the entry before it, and the payment is that entry's
\* interest plus that remaining balance, whatever the level payment is
C22_LastEntryPaysRemainingBalance ==
  (ScheduleDone /\ Len(result.schedule) > 0) =>
    /\ result.schedule[Len(result.schedule)].principal
         = BalanceBefore(result.schedule, Len(result.schedule),
                         call.params.principal)
    /\ result.schedule[Len(result.schedule)].payment
         = result.schedule[Len(result.schedule)].interest
             + BalanceBefore(result.schedule, Len(result.schedule),
                             call.params.principal)

\* a returned schedule whose last entry carries interest and pays the
\* balance the entry before it left, in a payment other than the level one
C22_Witness ==
  /\ ScheduleDone
  /\ IsValidLoan(call.params)
  /\ Len(result.schedule) >= 2
  /\ result.schedule[Len(result.schedule)].interest > 0
  /\ result.schedule[Len(result.schedule)].principal
       = result.schedule[Len(result.schedule) - 1].balance
  /\ result.schedule[Len(result.schedule)].payment
       = result.schedule[Len(result.schedule)].interest
           + result.schedule[Len(result.schedule) - 1].balance
  /\ result.schedule[Len(result.schedule)].payment # roundedPayment

SummaryDone == pc = "done" /\ call.fn = "generateYearlyAmortizationSummary"

\* the sum of the given field over count entries of s from entry k on
RECURSIVE SumFrom(_, _, _, _)
SumFrom(s, field, k, count) ==
  IF count = 0 THEN 0 ELSE s[k][field] + SumFrom(s, field, k + 1, count - 1)

\* row y of the summary against the block of the schedule s that starts
\* after entry (y - 1) * n and has n entries
RowSumsItsYear(row, s, y, n) ==
  /\ row.year = y
  /\ row.principalPaid = SumFrom(s, "principal", (y - 1) * n + 1, n)
  /\ row.interestPaid = SumFrom(s, "interest", (y - 1) * n + 1, n)
  /\ row.balance = s[y * n].balance
  /\ row.totalPaid = row.principalPaid + row.interestPaid

PaymentDone == pc = "done" /\ call.fn = "calculatePayment"

\* C6: for every valid loan, rate 0 included, calculatePayment returns for
\* accelerated-bi-weekly exactly one half, and for accelerated-weekly exactly
\* one quarter, of what it returns for the same loan paid monthly
C6_AcceleratedShareOfMonthly ==
  (PaymentDone /\ IsValidLoan(call.params)) =>
    /\ call.params.frequency = "accelerated-bi-weekly" =>
         result.payment
           = Divide(calculatePayment(
                      [call.params EXCEPT !.frequency = "monthly"]), 2)
    /\ call.params.frequency = "accelerated-weekly" =>
         result.payment
           = Divide(calculatePayment(
                      [call.params EXCEPT !.frequency = "monthly"]), 4)

Less(x, y) == x # NaN /\ y # NaN /\ x < y

\* C15: for fixed principal, years and frequency, calculatePayment is
\* strictly increasing in annualRate over rate >= 0: the payment it returned
\* is less than the payment at any greater rate, the step from the zero-rate
\* branch to a positive rate included
C15_PaymentIncreasesWithRate ==
  (PaymentDone /\ IsValidLoan(call.params)) =>
    \A greater \in Rates \cup CloseRates :
      call.params.annualRate < greater =>
        Less(result.payment,
             calculatePayment([call.params EXCEPT !.annualRate = greater]))

\* C16: calculateMaxMortgage is the inverse of calculatePayment: for every
\* valid loan, rate >= 0 and each of the six frequencies, calculateMaxMortgage
\* of the loan's payment, rate, years and frequency gives back the principal,
\* exactly at rate 0 (to the last digit the payment is held to: the payment
\* is within half a micro-dollar of principal / n) and to the cent otherwise
C16_MaxMortgageInvertsPayment ==
  (/\ pc = "done"
   /\ call.fn = "calculateMaxMortgage"
   /\ IsValidLoan(call.params)) =>
    IF call.params.annualRate = 0
    THEN 2 * Abs(result.maxMortgage - call.params.principal)
           <= call.params.amortizationYears
                * getPaymentsPerYear(call.params.frequency)
    ELSE Abs(result.maxMortgage - call.params.principal) < Cent

(***************************************************************************)
(* Properties of generateSensitivityAnalysis                               *)
(***************************************************************************)

\* generateSensitivityAnalysis has returned
SweepDone == pc = "done" /\ call.fn = "generateSensitivityAnalysis"

\* baseRate + rangeAboveBelow lies a whole number of steps above the first
\* rate of the sweep
MaxRateOnAStep(a) ==
  /\ SweepMinRate(a) <= SweepMaxRate(a)
  /\ (SweepMaxRate(a) - SweepMinRate(a)) % a.rateStep = 0

\* C24: generateSensitivityAnalysis returns its points in strictly
\* increasing rate order: the first rate is max(0.1, baseRate -
\* rangeAboveBelow), consecutive rates differ by rateStep, no rate exceeds
\* baseRate + rangeAboveBelow, and baseRate + rangeAboveBelow is the rate of
\* a point whenever it lies a whole number of steps above the first rate
C24_SweepRatesInOrder ==
  SweepDone =>
    /\ \A k \in 1..(Len(result.dataPoints) - 1) :
         /\ result.dataPoints[k].interestRate
              < result.dataPoints[k + 1].interestRate
         /\ result.dataPoints[k + 1].interestRate
              - result.dataPoints[k].interestRate = call.params.rateStep
    /\ \A k \in 1..Len(result.dataPoints) :
         result.dataPoints[k].interestRate <= SweepMaxRate(call.params)
    /\ Len(result.dataPoints) > 0 =>
         result.dataPoints[1].interestRate = SweepMinRate(call.params)
    /\ MaxRateOnAStep(call.params) =>
         \E k \in 1..Len(result.dataPoints) :
           result.dataPoints[k].interestRate = SweepMaxRate(call.params)

(***************************************************************************)
(* Properties of every call                                                *)
(***************************************************************************)

\* C8: calculatePayment and generateAmortizationSchedule called with
\* principal <= 0, amortizationYears <= 0 or a frequency outside the six
\* variants end in an error outcome, never in a payment or a schedule
C8_InvalidInputRejected ==
  (/\ pc = "done"
   /\ call.fn \in {"calculatePayment", "generateAmortizationSchedule"}
   /\ ~IsValidLoan(call.params)) =>
    result.outcome = "error"

\* C9: every call terminates after a bounded number of loop iterations: each
\* iteration of generateSensitivityAnalysis's loop moves rate strictly
\* towards maxRate, whatever rateStep and rangeAboveBelow are, and each
\* iteration of generateAmortizationSchedule's loop moves i by one towards
\* totalPayments, which it never passes
C9_LoopsAdvance ==
  [][/\ (pc = "sweep" /\ pc' = "sweep") => rate' > rate
     /\ (pc = "schedule" /\ pc' = "schedule") =>
          (i' = i + 1 /\ i' <= totalPayments)]_vars

(***************************************************************************)
(* Properties of calculateAffordability                                    *)
(***************************************************************************)

\* C10: in every AffordabilityResult calculateAffordability returns,
\* isAffordable is true exactly when the returned gdsRatio is at most the
\* returned gdsThreshold and the returned tdsRatio at most the returned
\* tdsThreshold
C10_AffordableIffReturnedRatios ==
  (pc = "done" /\ call.fn = "calculateAffordability") =>
    (result.affordability.isAffordable
       <=> (/\ result.affordability.gdsRatio
                 <= result.affordability.gdsThreshold
            /\ result.affordability.tdsRatio
                 <= result.affordability.tdsThreshold))

\* C11: when grossAnnualIncome <= 0, calculateAffordability raises no error,
\* returns gdsRatio and tdsRatio both Infinity, and returns isAffordable
\* false for every finite pair of thresholds
C11_NoIncomeInfiniteRatios ==
  (/\ pc = "done"
   /\ call.fn = "calculateAffordability"
   /\ call.params.grossAnnualIncome <= 0) =>
    /\ result.outcome = "value"
    /\ result.affordability.gdsRatio = Infinity
    /\ result.affordability.tdsRatio = Infinity
    /\ ~result.affordability.isAffordable

\* calculateAffordability has returned for a negative income and thresholds
\* of 1000% and 2000%: both ratios Infinity, not affordable
C11_Witness ==
  /\ pc = "done"
  /\ call.fn = "calculateAffordability"
  /\ call.params.grossAnnualIncome < 0
  /\ call.params.gdsThreshold > DEFAULT_GDS_THRESHOLD
  /\ call.params.tdsThreshold > DEFAULT_TDS_THRESHOLD
  /\ result.affordability.gdsRatio = Infinity
  /\ result.affordability.tdsRatio = Infinity
  /\ ~result.affordability.isAffordable

MaxMonthlyPayment(a, monthlyIncome) ==
  FloorAtZero(
    MaxHousingCosts(
      Scale(monthlyIncome, a.gdsThreshold, 100 * RatioUnit),
      Scale(monthlyIncome, a.tdsThreshold, 100 * RatioUnit) - a.monthlyDebts)
    - (a.propertyTax + a.heatingCost + Divide(a.condoFees, 2)))

\* C27: for every input the maxMortgage calculateMaxAffordableMortgage
\* returns is calculateMaxMortgage(maxMonthlyPayment, annualRate,
\* amortizationYears, 'monthly') rounded to cents: the inline inverse formula
\* and the inverse of the payment solver give the same principal
C27_InlineInverseIsSolverInverse ==
  (pc = "done" /\ call.fn = "calculateMaxAffordableMortgage") =>
    result.maxAffordable.maxMortgage
      = RoundToCents(
          calculateMaxMortgage(
            MaxMonthlyPayment(call.params,
                              Divide(call.params.grossAnnualIncome, 12)),
            call.params.annualRate, call.params.amortizationYears,
            "monthly"))

(***************************************************************************)
(* Properties of calculateRateBreakeven                                    *)
(***************************************************************************)

BreakevenDone == pc = "done" /\ call.fn = "calculateRateBreakeven"

\* the monthly equivalent of the payment of the call's loan at a rate
MonthlyPaymentAtRate(a, annualRate) ==
  convertToMonthlyPayment(calculatePayment(LoanAtRate(a, annualRate)),
                          a.frequency)

\* C28: calculateRateBreakeven returns breakevenMonths 0 when the monthly
\* equivalent of the payment at variableRate is lower than the one at
\* fixedRate, and Infinity in every other case, equal rates included; it
\* returns no other value
C28_BreakevenIsZeroOrInfinity ==
  BreakevenDone =>
    /\ result.breakeven.breakevenMonths \in {0, Infinity}
    /\ result.breakeven.breakevenMonths = 0
         <=> Less(MonthlyPaymentAtRate(call.params, call.params.variableRate),
                  MonthlyPaymentAtRate(call.params, call.params.fixedRate))
    /\ call.params.fixedRate = call.params.variableRate
         => result.breakeven.breakevenMonths = Infinity

\* a variable rate of 3% against a fixed rate of 5.5%: breakevenMonths 0
C28_Witness ==
  /\ BreakevenDone
  /\ call.params.variableRate = 300 * RateUnit
  /\ call.params.fixedRate = 550 * RateUnit
  /\ result.breakeven.breakevenMonths = 0
  /\ result.breakeven.monthlyDifference > 0

(***************************************************************************)
(* Properties of the stress test                                           *)
(***************************************************************************)

\* C12: getStressTestRate(contractRate) is max(contractRate + 2.0, 5.25): it
\* is 5.25 whenever contractRate <= 3.25 and contractRate + 2 otherwise, and
\* it is always strictly greater than contractRate
C12_StressRateIsMaxOfMarkupAndFloor ==
  (pc = "done" /\ call.fn = "getStressTestRate") =>
    /\ call.contractRate <= 325 * RateUnit =>
         result.stressRate = 525 * RateUnit
    /\ call.contractRate > 325 * RateUnit =>
         result.stressRate = call.contractRate + 200 * RateUnit
    /\ result.stressRate >= 525 * RateUnit
    /\ result.stressRate >= call.contractRate + 200 * RateUnit
    /\ result.stressRate > call.contractRate

\* getStressTestRate(3.0) has returned 5.25, the minimum and not 3.0 + 2
C12_Witness ==
  /\ pc = "done"
  /\ call.fn = "getStressTestRate"
  /\ call.contractRate = 300 * RateUnit
  /\ result.stressRate = 525 * RateUnit

\* the AffordabilityResult calculateAffordability gives for the loan, income,
\* debts and housing costs of a at the rate getStressTestRate(contractRate)
AffordabilityAtQualifyingRate(a) ==
  calculateAffordability(
    [principal |-> a.principal,
     annualRate |-> getStressTestRate(a.contractRate),
     amortizationYears |-> a.amortizationYears, frequency |-> a.frequency,
     grossAnnualIncome |-> a.grossAnnualIncome,
     monthlyDebts |-> a.monthlyDebts, propertyTax |-> a.propertyTax,
     heatingCost |-> a.heatingCost, condoFees |-> a.condoFees,
     gdsThreshold |-> DEFAULT_GDS_THRESHOLD,
     tdsThreshold |-> DEFAULT_TDS_THRESHOLD])

\* C13: performStressTest returns passesStressTest equal to the isAffordable
\* of the AffordabilityResult calculateAffordability gives for the same
\* principal, years, frequency, income, debts and housing costs at the rate
\* getStressTestRate(contractRate); that result is the returned
\* affordabilityAtStress; qualifiesUnderStressTest returns the same boolean
C13_PassesIffAffordableAtStressRate ==
  /\ (pc = "done" /\ call.fn = "performStressTest") =>
       /\ result.stressTest.affordabilityAtStress
            = AffordabilityAtQualifyingRate(call.params)
       /\ result.stressTest.passesStressTest
            = AffordabilityAtQualifyingRate(call.params).isAffordable
  /\ (pc = "done" /\ call.fn = "qualifiesUnderStressTest") =>
       result.qualifies
         = AffordabilityAtQualifyingRate(call.params).isAffordable

\* performStressTest has returned for a loan that is affordable at the
\* contract rate and not at the stressed one: passesStressTest is false
C13_Witness ==
  /\ pc = "done"
  /\ call.fn = "performStressTest"
  /\ calculateAffordability(
       StressAffordabilityArgsAtContract(call.params, 0)).isAffordable
  /\ ~result.stressTest.affordabilityAtStress.isAffordable
  /\ ~result.stressTest.passesStressTest

\* performStressTest has returned
StressTestDone == pc = "done" /\ call.fn = "performStressTest"

\* 0.40 x grossAnnualIncome / 12 - monthlyDebts - (propertyTax + heatingCost
\* + 0.5 x condoFees) leaves nothing for a mortgage payment
NoPaymentBudget(a) ==
  Scale(Divide(a.grossAnnualIncome, 12), 4, 10)
    <= a.monthlyDebts + a.propertyTax + a.heatingCost
         + Divide(a.condoFees, 2)

C14_ResultDependsOnlyOnArguments ==
  (/\ pc = "done"
   /\ result.outcome = "value"
   /\ remembered.call.fn = call.fn
   /\ remembered.call = call) =>
    remembered.result = result

(***************************************************************************)
(* Properties of the client store                                          *)
(***************************************************************************)

\* the POST requests answered after their email was found stored, by
\* findUnique or by the unique constraint at create
PostsOfStoredEmail ==
  {r \in DOMAIN requests :
     /\ requests[r].kind = "POST"
     /\ requests[r].pc = "answered"
     /\ requests[r].emailTaken}

\* C19: in every interleaving of POST, PUT and saveCalculation requests no
\* two stored clients share an email, and a POST whose email belongs to a
\* stored client is answered 409 and stores nothing
C19_EmailsUniqueAndDuplicatePostIs409 ==
  /\ \A c, d \in clients : c.email = d.email => c = d
  /\ \A r \in PostsOfStoredEmail :
       /\ requests[r].outcome = "409"
       /\ requests[r].stored = NoClient

\* the clients holding the email of request r after the step
ClientsOfEmailAfter(r) == {c \in clients' : c.email = requests[r].email}

\* request r returns success = true in this step
ReturnsSuccess(r) ==
  /\ requests[r].outcome = "pending"
  /\ requests'[r].outcome = "success"

\* the postcondition of a successful saveCalculation r that no other
\* request's write ran into: one client with the email, the one that was
\* there before with its id or else a new one, and one more mortgage
SavedOnce(r) ==
  /\ Cardinality(ClientsOfEmailAfter(r)) = 1
  /\ \A c \in ClientsOfEmailAfter(r) :
       /\ c.id = requests'[r].clientId
       /\ IF \E b \in requests[r].before.clients : b.email = c.email
          THEN \E b \in requests[r].before.clients :
                 b.email = c.email /\ b.id = c.id
          ELSE \A b \in requests[r].before.clients : b.id # c.id
  /\ Cardinality(requests[r].before.clients)
       + (IF requests[r].found = NoClient THEN 1 ELSE 0)
       = Cardinality(clients')
  /\ Cardinality(mortgages') = requests[r].before.mortgages + 1

\* C20: a saveCalculation that returns success = true has stored exactly
\* one mortgage, whose clientId is the returned clientId of a stored
\* client; when no other request wrote during the call, exactly one client
\* has the given email (the existing one with its id unchanged, or a new
\* one) and there is exactly one more mortgage than before the call; and a
\* call only ever ends with success = true or success = false
C20_SaveStep ==
  \A r \in DOMAIN requests :
    /\ ReturnsSuccess(r) =>
         /\ \E m \in mortgages' \ mortgages :
              /\ mortgages' = mortgages \cup {m}
              /\ m.id = requests'[r].mortgageId
              /\ m.clientId = requests'[r].clientId
         /\ \E c \in clients' : c.id = requests'[r].clientId
         /\ requests[r].undisturbed => SavedOnce(r)
    /\ requests[r].kind = "save" =>
         requests'[r].outcome \in {"pending", "success", "failure"}

C20_SaveSuccessStoresOneClientOneMortgage == [][C20_SaveStep]_vars

\* a save that found its client, updated it in place and returned success
\* with no other write in between, and the client is stored under its id
C20_Witness ==
  \E r \in DOMAIN requests :
    /\ requests[r].kind = "save"
    /\ requests[r].outcome = "success"
    /\ requests[r].undisturbed
    /\ requests[r].found # NoClient
    /\ requests[r].clientId = requests[r].found
    /\ \E m \in mortgages : m.clientId = requests[r].found

(***************************************************************************)
(* Properties of the stored mortgages                                      *)
(***************************************************************************)

\* every stored mortgage has a principal > 0 and an interestRate >= 0
StoredTermsValid ==
  \A m \in mortgages : m.principal > 0 /\ m.interestRate >= 0

\* every stored mortgage has the clientId of a stored client
StoredMortgagesHaveClients ==
  \A m \in mortgages : \E c \in clients : c.id = m.clientId

\* a POST /api/mortgages without clientId, with a principal <= 0 or with a
\* negative rate is answered 400, one with the id of no stored client 404,
\* and neither has stored a mortgage
BadMortgagePostsRefused ==
  \A r \in DOMAIN requests :
    requests[r].kind = "POST mortgage" =>
      /\ (\/ requests[r].id = NoClient
          \/ requests[r].principal <= 0
          \/ requests[r].interestRate < 0)
           => (requests[r].outcome = "400" /\ requests[r].mortgageId = 0)
      /\ (requests[r].pc = "answered" /\ requests[r].outcome # "400"
            /\ requests[r].found = NoClient)
           => (requests[r].outcome = "404" /\ requests[r].mortgageId = 0)

\* C29: after any sequence of POST /api/mortgages, saveCalculation and
\* DELETE /api/clients requests every stored mortgage has principal > 0,
\* interestRate >= 0 and the clientId of a stored client; a POST
\* /api/mortgages with a missing clientId, a principal <= 0 or a negative
\* rate is answered 400, one with an unknown clientId 404, and stores
\* nothing
C29_StoredMortgagesValid ==
  /\ StoredTermsValid
  /\ StoredMortgagesHaveClients
  /\ BadMortgagePostsRefused

(***************************************************************************)
(* Properties of a failed saveCalculation                                  *)
(***************************************************************************)

\* C30: when saveCalculation returns success = false the store is as it was
\* before the call: the call has created or updated no client and created
\* no mortgage (the client write and the mortgage write take effect
\* together or not at all)
C30_FailedSaveWroteNothing ==
  \A r \in DOMAIN requests :
    (requests[r].kind = "save" /\ requests[r].outcome = "failure") =>
      /\ requests[r].stored = NoClient
      /\ requests[r].mortgageId = 0
      /\ requests[r].undisturbed =>
           (/\ clients = requests[r].before.clients
            /\ Cardinality(mortgages) = requests[r].before.mortgages)

====
